---- MODULE Spec2Model ----
(***************************************************************************)
(* Model of rosapi/objectutils.py: the typedef builder (_get_typedef) and  *)
(* the recursive typedef expander (get_typedef_recursive and the two       *)
(* service variants).                                                      *)
(*                                                                         *)
(* Two specifications share the module:                                    *)
(*   Spec       the recursive expander, run over every small type registry *)
(*   BuildSpec  the per-field loop of _get_typedef, run over raw declared  *)
(*              field-type strings modelled as sequences of characters     *)
(***************************************************************************)
EXTENDS Integers, Sequences, FiniteSets, TLC

\* ------------------------------------------------------------------------
\* Bounds
\* ------------------------------------------------------------------------
\* Largest number of fields of a message class in the registry.
MaxFields == 2

\* ------------------------------------------------------------------------
\* Generic helpers
\* ------------------------------------------------------------------------
Range(s) == { s[k] : k \in DOMAIN s }

SeqsUpTo(S, n) == UNION { [1..k -> S] : k \in 0..n }

\* ------------------------------------------------------------------------
\* Module-level tables of objectutils.py
\* ------------------------------------------------------------------------
atomics == <<"bool", "byte", "int8", "uint8", "int16", "uint16", "int32",
             "uint32", "int64", "uint64", "float32", "float64", "string">>

specials == <<"time", "duration">>

\* ------------------------------------------------------------------------
\* The type registry (ros_loader), as far as the expander uses it.
\* A message class is known by its fully qualified name; its instance
\* carries the list of its (already qualified) field types.
\* ------------------------------------------------------------------------
\* Message classes the registry can load.
MessageClasses == {"A", "B"}

\* Type names that occur as a root or as a field type: the message classes,
\* one atomic, one special and one name the registry cannot resolve.
TypePool == MessageClasses \cup {"int32", "time", "X"}

\* Service types a caller may ask for: "S" exists, "U" does not.
ServicePool == {"S", "U"}
ServiceClasses == {"S"}

\* The request class of S is named like message class A, the response
\* class like message class B, each with that class's fields.
RequestClass == [s \in ServiceClasses |-> "A"]
ResponseClass == [s \in ServiceClasses |-> "B"]

VARIABLES
    registry,    \* message class name -> sequence of its field types
    entry,       \* which public function was called
    root,        \* its argument
    typesseen,   \* the typesseen list shared by one top-level call
    stack,       \* frames of _get_subtypedefs_recursive, innermost last
    pc,          \* "idle", "running", "done" or "raised"
    result,      \* the list returned to the caller
    lookups,     \* number of get_typedef calls made so far
    \* variables of the builder run
    instance, idx, fieldnames, basetypes, fieldtypes, fieldarraylen,
    examples, bpc

expVars == <<registry, entry, root, typesseen, stack, pc, result, lookups>>
buildVars == <<instance, idx, fieldnames, basetypes, fieldtypes,
               fieldarraylen, examples, bpc>>
vars == <<expVars, buildVars>>

\* ------------------------------------------------------------------------
\* Typedefs
\* ------------------------------------------------------------------------
None == [kind |-> "None"]
Raised == [kind |-> "raise"]
TypeDef(t, fts) == [kind |-> "typedef", type |-> t, fieldtypes |-> fts]

\* _get_special_typedef: the mocked-up typedef of time and duration.
get_special_typedef_blank(type_) == TypeDef(" ", <<>>)
get_special_typedef(type_) ==
    IF type_ \in Range(specials)
    THEN TypeDef(type_, <<"int32", "int32">>)
    ELSE TypeDef(" ", <<>>)

\* ros_loader.get_message_instance followed by _get_typedef: the typedef of
\* a registry class, or the loader's exception for a name it cannot resolve.
get_message_typedef(type_) ==
    IF type_ \in DOMAIN registry
    THEN TypeDef(type_, registry[type_])
    ELSE Raised

\* The mutant of get_typedef swallows the loader's failure.
get_typedef_swallow(type_) ==
    IF type_ \in Range(atomics) THEN None
    ELSE IF type_ \in Range(specials) THEN get_special_typedef(type_)
    ELSE IF type_ \in DOMAIN registry THEN TypeDef(type_, registry[type_])
    ELSE None

get_typedef(type_) ==
    IF type_ \in Range(atomics) THEN None
    ELSE IF type_ \in Range(specials) THEN get_special_typedef(type_)
    ELSE get_message_typedef(type_)

\* ros_loader.get_service_request_instance / get_service_response_instance
\* followed by _get_typedef.
get_service_request_typedef(servicetype) ==
    IF servicetype \in ServiceClasses
    THEN get_message_typedef(RequestClass[servicetype])
    ELSE Raised

get_service_response_typedef(servicetype) ==
    IF servicetype \in ServiceClasses
    THEN get_message_typedef(ResponseClass[servicetype])
    ELSE Raised

\* ------------------------------------------------------------------------
\* The expander
\* ------------------------------------------------------------------------
\* line 178: the loop guard of _get_typedefs_recursive
SeenNever(type_, seen) == FALSE
Seen(type_, seen) == type_ \in Range(seen)

\* line 183: typesseen.append(type_)
NoteSeenNot(type_, seen) == seen
NoteSeen(type_, seen) == Append(seen, type_)

\* line 197: typedefs = typedefs + <returned list>
ExtendReversed(typedefs, returned) == returned \o typedefs
Extend(typedefs, returned) == typedefs \o returned

\* line 195: a new frame of _get_subtypedefs_recursive
FrameSkipFirst(typedef) ==
    [typedef |-> typedef, i |-> 2, typedefs |-> <<typedef>>]
Frame(typedef) == [typedef |-> typedef, i |-> 1, typedefs |-> <<typedef>>]

Top == stack[Len(stack)]

\* The innermost call returned the list `returned` to the loop of the frame
\* below it (line 197), or to the public caller when no frame is left.
Deliver(stk, returned) ==
    IF stk = <<>>
    THEN /\ stack' = <<>>
         /\ result' = returned
         /\ pc' = "done"
    ELSE /\ stack' = [stk EXCEPT ![Len(stk)] =
                        [@ EXCEPT !.typedefs = Extend(@, returned),
                                  !.i = @ + 1]]
         /\ UNCHANGED result
         /\ pc' = "running"

\* The body of _get_typedefs_recursive(type_, typesseen), called with the
\* frames stk below it.
CallTypedefsRecursive(type_, stk) ==
    IF Seen(type_, typesseen)
    THEN /\ Deliver(stk, <<>>)
         /\ UNCHANGED <<typesseen, lookups>>
    ELSE /\ typesseen' = NoteSeen(type_, typesseen)
         /\ lookups' = lookups + 1
         /\ LET typedef == get_typedef(type_) IN
            CASE typedef = Raised ->
                    /\ pc' = "raised"
                    /\ stack' = <<>>
                    /\ UNCHANGED result
              [] typedef = None -> Deliver(stk, <<>>)
              [] OTHER ->
                    /\ stack' = Append(stk, Frame(typedef))
                    /\ pc' = "running"
                    /\ UNCHANGED result

\* get_typedef_recursive(type_)
GetTypedefRecursive(type_) ==
    /\ pc = "idle"
    /\ entry' = "message"
    /\ root' = type_
    /\ CallTypedefsRecursive(type_, <<>>)
    /\ UNCHANGED <<registry, buildVars>>

\* The body shared by the two service entry points: the typedef of the
\* root is handed to _get_subtypedefs_recursive with an empty typesseen.
CallSubtypedefs(typedef) ==
    /\ UNCHANGED <<typesseen, lookups>>
    /\ CASE typedef = Raised ->
               /\ pc' = "raised"
               /\ UNCHANGED <<stack, result>>
         [] typedef = None -> Deliver(<<>>, <<>>)
         [] OTHER ->
               /\ stack' = <<Frame(typedef)>>
               /\ pc' = "running"
               /\ UNCHANGED result

\* get_service_request_typedef_recursive(servicetype)
GetServiceRequestTypedefRecursive(servicetype) ==
    /\ pc = "idle"
    /\ entry' = "request"
    /\ root' = servicetype
    /\ CallSubtypedefs(get_service_request_typedef(servicetype))
    /\ UNCHANGED <<registry, buildVars>>

\* get_service_response_typedef_recursive(servicetype)
GetServiceResponseTypedefRecursive(servicetype) ==
    /\ pc = "idle"
    /\ entry' = "response"
    /\ root' = servicetype
    /\ CallSubtypedefs(get_service_response_typedef(servicetype))
    /\ UNCHANGED <<registry, buildVars>>

\* One iteration of the loop of _get_subtypedefs_recursive (lines 196-197):
\* the call for the next field type.
ExpandField ==
    /\ pc = "running"
    /\ stack # <<>>
    /\ Top.i <= Len(Top.typedef.fieldtypes)
    /\ CallTypedefsRecursive(Top.typedef.fieldtypes[Top.i], stack)
    /\ UNCHANGED <<registry, entry, root, buildVars>>

\* The loop is exhausted: return typedefs (line 199).
ReturnTypedefs ==
    /\ pc = "running"
    /\ stack # <<>>
    /\ Top.i > Len(Top.typedef.fieldtypes)
    /\ Deliver(SubSeq(stack, 1, Len(stack) - 1), Top.typedefs)
    /\ UNCHANGED <<registry, entry, root, typesseen, lookups, buildVars>>

BuildIdle ==
    /\ instance = <<>>
    /\ idx = 0
    /\ fieldnames = <<>>
    /\ basetypes = <<>>
    /\ fieldtypes = <<>>
    /\ fieldarraylen = <<>>
    /\ examples = <<>>
    /\ bpc = "off"

Init ==
    /\ registry \in [MessageClasses -> SeqsUpTo(TypePool, MaxFields)]
    /\ entry = "none"
    /\ root = "none"
    /\ typesseen = <<>>
    /\ stack = <<>>
    /\ pc = "idle"
    /\ result = <<>>
    /\ lookups = 0
    /\ BuildIdle

Next ==
    \/ \E type_ \in TypePool : GetTypedefRecursive(type_)
    \/ \E servicetype \in ServicePool :
          GetServiceRequestTypedefRecursive(servicetype)
    \/ \E servicetype \in ServicePool :
          GetServiceResponseTypedefRecursive(servicetype)
    \/ ExpandField
    \/ ReturnTypedefs

Spec == Init /\ [][Next]_vars

\* ========================================================================
\* The typedef builder: _get_typedef(instance)
\* Declared field types are Python strings, modelled as sequences of
\* one-character strings so that slicing and find act on characters.
\* ========================================================================
\* Longest bracket suffix appended to a type name in a declared field type.
MaxSuffix == 3

Chars ==
    [ bool |-> <<"b","o","o","l">>, byte |-> <<"b","y","t","e">>,
      int8 |-> <<"i","n","t","8">>, uint8 |-> <<"u","i","n","t","8">>,
      int16 |-> <<"i","n","t","1","6">>,
      uint16 |-> <<"u","i","n","t","1","6">>,
      int32 |-> <<"i","n","t","3","2">>,
      uint32 |-> <<"u","i","n","t","3","2">>,
      int64 |-> <<"i","n","t","6","4">>,
      uint64 |-> <<"u","i","n","t","6","4">>,
      float32 |-> <<"f","l","o","a","t","3","2">>,
      float64 |-> <<"f","l","o","a","t","6","4">>,
      string |-> <<"s","t","r","i","n","g">>,
      time |-> <<"t","i","m","e">>,
      duration |-> <<"d","u","r","a","t","i","o","n">> ]

\* The two module-level lists, as character strings.
atomicStrings == { Chars[atomics[k]] : k \in DOMAIN atomics }
specialStrings == { Chars[specials[k]] : k \in DOMAIN specials }

Min(a, b) == IF a < b THEN a ELSE b
Max(a, b) == IF a > b THEN a ELSE b

\* Python s[lo:hi]: negative bounds count from the end, both are clamped.
SliceBound(k, n) == IF k < 0 THEN Max(k + n, 0) ELSE Min(k, n)
Slice(s, lo, hi) ==
    SubSeq(s, SliceBound(lo, Len(s)) + 1, SliceBound(hi, Len(s)))

\* Python s.find(c): the 0-based index of the first c, or -1.
Find(s, c) ==
    IF \E k \in DOMAIN s : s[k] = c
    THEN (CHOOSE k \in DOMAIN s : s[k] = c /\ \A j \in 1..(k-1) : s[j] # c) - 1
    ELSE -1

Digits == <<"0", "1", "2", "3", "4", "5", "6", "7", "8", "9">>
DigitValue(c) == (CHOOSE k \in DOMAIN Digits : Digits[k] = c) - 1

\* Python int(s) for the characters of the model: a value for a non-empty
\* string of decimal digits, ValueError for anything else.
IsInt(s) == s # <<>> /\ \A k \in DOMAIN s : s[k] \in Range(Digits)
RECURSIVE IntOf(_)
IntOf(s) ==
    IF s = <<>> THEN 0
    ELSE 10 * IntOf(SubSeq(s, 1, Len(s) - 1)) + DigitValue(s[Len(s)])

\* ------------------------------------------------------------------------
\* Python values held by the fields of an instance
\* ------------------------------------------------------------------------
IntValue(n) == [kind |-> "int", val |-> n, len |-> 0,
                module |-> <<>>, class |-> <<>>]
ListValue(n) == [kind |-> "list", val |-> 0, len |-> n,
                 module |-> <<>>, class |-> <<>>]
DictValue == [kind |-> "dict", val |-> 0, len |-> 0,
              module |-> <<>>, class |-> <<>>]
TimeValue == [kind |-> "time", val |-> 0, len |-> 0,
              module |-> <<"g","e","n","p","y",".","r","o","s","t","i","m","e">>,
              class |-> <<"T","i","m","e">>]
MessageValue == [kind |-> "msg", val |-> 0, len |-> 0,
                 module |-> <<"p",".","m","s","g",".","_","A">>,
                 class |-> <<"A">>]

Decimal(n) == IF n \in 0..9 THEN Digits[n + 1] ELSE "?"

RECURSIVE ZeroItems(_)
ZeroItems(n) == IF n <= 1 THEN "0" ELSE "0, " \o ZeroItems(n - 1)

\* Python str(value)
Str(v) ==
    CASE v.kind = "list" ->
            IF v.len = 0 THEN "[]" ELSE "[" \o ZeroItems(v.len) \o "]"
      [] v.kind = "dict" -> "{}"
      [] v.kind = "int" -> Decimal(v.val)
      [] v.kind = "time" -> Decimal(v.val)
      [] OTHER -> "x: 0"

\* ------------------------------------------------------------------------
\* Instances handed to _get_typedef
\* ------------------------------------------------------------------------
SlotNames == <<"x", "y">>

PrefixStrings == { <<>>, Chars["int32"], Chars["time"], <<"p", "/", "A">> }
SuffixChars == {"[", "]", "3"}

\* Declared field-type strings: a type name followed by any short string
\* of brackets and digits, well-formed or not.
FieldTypeStrings ==
    { p \o t : p \in PrefixStrings, t \in SeqsUpTo(SuffixChars, MaxSuffix) }

\* The value the message class holds in a field of the declared type: an
\* empty list for "[]", a filled list for a sized array, and otherwise the
\* default of the base type (a number, a Time or a nested message).
DefaultValue(ft) ==
    IF ft # <<>> /\ ft[Len(ft)] = "]"
    THEN IF Len(ft) >= 2 /\ ft[Len(ft) - 1] = "["
         THEN ListValue(0)
         ELSE ListValue(3)
    ELSE IF ft \in atomicStrings THEN IntValue(0)
    ELSE IF ft \in specialStrings THEN TimeValue
    ELSE MessageValue

NoInstance == [slots |-> <<>>, slot_types |-> <<>>, values |-> <<>>,
               hasslots |-> FALSE]

Instances ==
    { [slots |-> SubSeq(SlotNames, 1, Len(ts)), slot_types |-> ts,
       values |-> [k \in DOMAIN ts |-> DefaultValue(ts[k])],
       hasslots |-> TRUE] :
         ts \in SeqsUpTo(FieldTypeStrings, Len(SlotNames)) }

\* ------------------------------------------------------------------------
\* The per-field computations of _get_typedef
\* ------------------------------------------------------------------------
\* lines 125-132 may raise ValueError in int()
IsArray(field_type) == Slice(field_type, -1, Len(field_type)) = <<"]">>
IsVariableArray(field_type) == Slice(field_type, -2, -1) = <<"[">>

ParseFails(field_type) ==
    /\ IsArray(field_type)
    /\ ~IsVariableArray(field_type)
    /\ ~IsInt(Slice(field_type, Find(field_type, "[") + 1, -1))

\* lines 124-131: arraylen
ArrayLen(field_type) ==
    IF IsArray(field_type)
    THEN IF IsVariableArray(field_type)
         THEN 0
         ELSE IntOf(Slice(field_type, Find(field_type, "[") + 1, -1))
    ELSE -1

\* lines 128 and 132: field_type with the array suffix cut off
BaseTypeKeepBracket(field_type) ==
    IF IsArray(field_type)
    THEN IF IsVariableArray(field_type)
         THEN Slice(field_type, 0, -2)
         ELSE Slice(field_type, 0, Find(field_type, "[") + 1)
    ELSE field_type

BaseType(field_type) ==
    IF IsArray(field_type)
    THEN IF IsVariableArray(field_type)
         THEN Slice(field_type, 0, -2)
         ELSE Slice(field_type, 0, Find(field_type, "["))
    ELSE field_type

\* _type_name_from_instance: <module up to its first dot>/<class name>
HasModule(v) == v.kind \in {"msg", "time"}
type_name_from_instance(v) ==
    Slice(v.module, 0, Find(v.module, ".")) \o <<"/">> \o v.class

\* _type_name(type_, instance)
type_name(type_, v) ==
    IF type_ \in atomicStrings \/ type_ \in specialStrings THEN type_
    ELSE IF v.kind = "list" THEN type_
    ELSE type_name_from_instance(v)

\* _type_name raises AttributeError for a value without __module__
TypeNameFails(type_, v) ==
    /\ type_ \notin atomicStrings
    /\ type_ \notin specialStrings
    /\ v.kind # "list"
    /\ ~HasModule(v)

\* lines 140-145: the example string of a field
ExampleOnlyNonEmpty(arraylen, field_type, field_instance) ==
    Str(IF arraylen > 0 THEN ListValue(0)
        ELSE IF field_type \notin atomicStrings THEN DictValue
        ELSE field_instance)

Example(arraylen, field_type, field_instance) ==
    Str(IF arraylen >= 0 THEN ListValue(0)
        ELSE IF field_type \notin atomicStrings THEN DictValue
        ELSE field_instance)

\* ------------------------------------------------------------------------
\* The builder run
\* ------------------------------------------------------------------------
\* line 108: no typedef for an instance without __slots__ / _slot_types
ReturnNone ==
    /\ bpc = "call"
    /\ ~instance.hasslots
    /\ bpc' = "none"
    /\ UNCHANGED <<instance, idx, fieldnames, basetypes, fieldtypes,
                   fieldarraylen, examples, expVars>>

\* lines 111-116: the empty lists
StartLoop ==
    /\ bpc = "call"
    /\ instance.hasslots
    /\ bpc' = "loop"
    /\ idx' = 0
    /\ fieldnames' = <<>>
    /\ basetypes' = <<>>
    /\ fieldtypes' = <<>>
    /\ fieldarraylen' = <<>>
    /\ examples' = <<>>
    /\ UNCHANGED <<instance, expVars>>

\* lines 117-145: one iteration of the loop over __slots__ (idx is the
\* 0-based loop variable i); an exception leaves no typedef behind.
ClassifyField ==
    /\ bpc = "loop"
    /\ idx < Len(instance.slots)
    /\ LET name == instance.slots[idx + 1]
           declared == instance.slot_types[idx + 1]
           field_instance == instance.values[idx + 1]
           arraylen == ArrayLen(declared)
           field_type == BaseType(declared)
       IN IF ParseFails(declared) \/ TypeNameFails(field_type, field_instance)
          THEN /\ bpc' = "raised"
               /\ idx' = 0
               /\ fieldnames' = <<>>
               /\ basetypes' = <<>>
               /\ fieldtypes' = <<>>
               /\ fieldarraylen' = <<>>
               /\ examples' = <<>>
          ELSE /\ bpc' = "loop"
               /\ idx' = idx + 1
               /\ fieldnames' = Append(fieldnames, name)
               /\ fieldarraylen' = Append(fieldarraylen, arraylen)
               /\ basetypes' = Append(basetypes, field_type)
               /\ fieldtypes' =
                     Append(fieldtypes, type_name(field_type, field_instance))
               /\ examples' =
                     Append(examples,
                            Example(arraylen, field_type, field_instance))
    /\ UNCHANGED <<instance, expVars>>

\* lines 153-162: the lists become the typedef that is returned
AssembleTypedef ==
    /\ bpc = "loop"
    /\ idx = Len(instance.slots)
    /\ bpc' = "done"
    /\ UNCHANGED <<instance, idx, fieldnames, basetypes, fieldtypes,
                   fieldarraylen, examples, expVars>>

BuildInit ==
    /\ registry = [c \in MessageClasses |-> <<>>]
    /\ entry = "none"
    /\ root = "none"
    /\ typesseen = <<>>
    /\ stack = <<>>
    /\ pc = "off"
    /\ result = <<>>
    /\ lookups = 0
    /\ instance \in Instances \cup {NoInstance}
    /\ idx = 0
    /\ fieldnames = <<>>
    /\ basetypes = <<>>
    /\ fieldtypes = <<>>
    /\ fieldarraylen = <<>>
    /\ examples = <<>>
    /\ bpc = "call"

BuildNext ==
    \/ ReturnNone
    \/ StartLoop
    \/ ClassifyField
    \/ AssembleTypedef

BuildSpec == BuildInit /\ [][BuildNext]_vars

\* A run that reached its end keeps its state.
Finished == pc \in {"done", "raised"}

\* The scheduler is the Python interpreter: a call that can take its next
\* step takes it.
FairSpec == Spec /\ WF_vars(Next)

\* ------------------------------------------------------------------------
\* The type graph, described independently of the expander
\* ------------------------------------------------------------------------
IsAtomic(n) == n \in Range(atomics)
IsSpecial(n) == n \in Range(specials)

\* The field-type edges leaving type name n.
Edges(n) ==
    IF n \in DOMAIN registry THEN registry[n]
    ELSE IF IsSpecial(n) THEN <<"int32", "int32">>
    ELSE <<>>

\* The descriptor the type graph holds for a non-atomic, resolvable name.
Descriptor(n) == [kind |-> "typedef", type |-> n, fieldtypes |-> Edges(n)]

RECURSIVE ReachFrom(_, _)
ReachFrom(frontier, acc) ==
    IF frontier = {} THEN acc
    ELSE LET new == (UNION { Range(Edges(n)) : n \in frontier }) \ acc
         IN ReachFrom(new, acc \cup new)

\* The type names reachable from r through field-type edges, r included.
Reachable(r) == ReachFrom({r}, {r})

\* The type names reachable from the fields of r (r only if on a cycle).
ReachableBelow(r) ==
    LET first == Range(Edges(r)) IN ReachFrom(first, first)

\* Depth-first pre-order with a worklist: the non-atomic names in the order
\* of their first appearance.
RECURSIVE PreOrderWalk(_, _, _)
PreOrderWalk(work, visited, out) ==
    IF work = <<>> THEN out
    ELSE LET n == Head(work) IN
         IF n \in visited \/ IsAtomic(n)
         THEN PreOrderWalk(Tail(work), visited, out)
         ELSE PreOrderWalk(Edges(n) \o Tail(work), visited \cup {n},
                           Append(out, n))

PreOrder(r) == PreOrderWalk(<<r>>, {}, <<>>)

TypesOf(list) == [k \in DOMAIN list |-> list[k].type]

NoDuplicates(s) == \A i, j \in DOMAIN s : i # j => s[i] # s[j]

Occurrences(s, x) == Cardinality({ k \in DOMAIN s : s[k] = x })

\* The class whose typedef is the root of the closure.
RootClass ==
    CASE entry = "request" /\ root \in ServiceClasses -> RequestClass[root]
      [] entry = "response" /\ root \in ServiceClasses -> ResponseClass[root]
      [] OTHER -> root

ServiceEntry == entry \in {"request", "response"}

\* ------------------------------------------------------------------------
\* C1: the list returned by get_typedef_recursive(root) holds no two
\* typedefs with the same 'type', whatever the type graph (shared
\* sub-types, self-references and mutual cycles included).
\* ------------------------------------------------------------------------
C1_NoDuplicateTypes ==
    (pc = "done" /\ entry = "message") => NoDuplicates(TypesOf(result))

\* A finished closure of a graph with a cycle through the root and a type
\* used by two fields.
C1_Witness ==
    /\ pc = "done" /\ entry = "message" /\ root = "A"
    /\ registry["A"] = <<"B", "B">>
    /\ registry["B"] = <<"A", "time">>
    /\ Len(result) = 3

\* ------------------------------------------------------------------------
\* C2: for the two service entry points the returned list holds at most one
\* typedef per type name and the root's typedef exactly once, also when a
\* field type reachable from the root has the root's type name.
\* ------------------------------------------------------------------------
C2_ServiceRootGuarded ==
    (pc = "done" /\ ServiceEntry) =>
        /\ NoDuplicates(TypesOf(result))
        /\ Occurrences(TypesOf(result), RootClass) = 1

\* ------------------------------------------------------------------------
\* C3 as stated: for every requested root the first element of the closure
\* is the typedef of the root.
\* ------------------------------------------------------------------------
C3_RootAlwaysFirst ==
    pc = "done" => (result # <<>> /\ result[1] = Descriptor(RootClass))

\* C3 amended: the closure of an atomic root is empty; for every other root
\* the closure is non-empty and its first element is the root's typedef.
C3_RootFirstUnlessAtomic ==
    pc = "done" =>
        IF entry = "message" /\ IsAtomic(root)
        THEN result = <<>>
        ELSE result # <<>> /\ result[1] = Descriptor(RootClass)

C3_Witness ==
    /\ pc = "done" /\ Len(result) >= 3
    /\ result[1] = Descriptor(RootClass)

IsPrefix(s, t) == Len(s) <= Len(t) /\ SubSeq(t, 1, Len(s)) = s

C4_LookupsBounded ==
    /\ lookups = Len(typesseen)
    /\ NoDuplicates(typesseen)
    /\ lookups <= Cardinality(TypePool)
    /\ Len(stack) <= Cardinality(TypePool)

C4_SeenGrows ==
    /\ IsPrefix(typesseen, typesseen')
    /\ Len(typesseen') <= Len(typesseen) + 1
    /\ lookups' > lookups => Len(typesseen') = Len(typesseen) + 1

\* ------------------------------------------------------------------------
\* C4: every expansion terminates; typesseen only grows, each call of
\* _get_typedefs_recursive either returns at once on a seen type or appends
\* a name not seen before, and the number of get_typedef lookups never
\* exceeds the number of distinct type names.
\* ------------------------------------------------------------------------
C4_Terminates ==
    /\ []C4_LookupsBounded
    /\ [][C4_SeenGrows]_vars
    /\ <>Finished

\* An expansion of a cyclic graph that came to its end after looking up
\* every name of the pool that is not left unreachable.
C4_Witness ==
    /\ pc = "done" /\ lookups = 4
    /\ "A" \in Range(registry["B"]) /\ "B" \in Range(registry["A"])

SelfCycle == registry["A"] = <<"A">>
MutualCycle == registry["A"] = <<"B">> /\ registry["B"] = <<"A">>

C6_CycleClosures ==
    (pc = "done" /\ entry = "message" /\ root = "A") =>
        /\ SelfCycle => result = <<Descriptor("A")>>
        /\ MutualCycle => result = <<Descriptor("A"), Descriptor("B")>>

\* ------------------------------------------------------------------------
\* C6: A whose single field has type A gives the closure <<A>>; A -> B -> A
\* gives <<A, B>>; and both expansions terminate.
\* ------------------------------------------------------------------------
C6_CyclesTerminate ==
    /\ []C6_CycleClosures
    /\ (entry = "message" /\ root = "A" /\ (SelfCycle \/ MutualCycle))
          ~> (pc = "done")

C6_Witness ==
    /\ pc = "done" /\ entry = "message" /\ root = "A" /\ MutualCycle
    /\ Len(result) = 2

\* ------------------------------------------------------------------------
\* C7: the type names in the list returned by get_typedef_recursive(root)
\* are exactly the non-atomic names reachable from root (root and the
\* specials included); an atomic name contributes no typedef.
\* ------------------------------------------------------------------------
C7_ClosureComplete ==
    (pc = "done" /\ entry = "message") =>
        /\ Range(TypesOf(result))
              = { n \in Reachable(root) : ~IsAtomic(n) }
        /\ \A k \in DOMAIN result : result[k] = Descriptor(result[k].type)

C7_Witness ==
    /\ pc = "done" /\ entry = "message" /\ root = "B"
    /\ registry["B"] = <<"int32", "A">>
    /\ registry["A"] = <<"time", "B">>
    /\ Range(TypesOf(result)) = {"A", "B", "time"}

Resolvable(n) == IsAtomic(n) \/ IsSpecial(n) \/ n \in DOMAIN registry

\* ------------------------------------------------------------------------
\* C8: a name the registry cannot resolve, at the root or below it, ends
\* the call with the registry's failure and no list; a list is returned
\* only if every lookup of the walk succeeded.
\* ------------------------------------------------------------------------
C8_FailurePropagates ==
    /\ (\E k \in DOMAIN typesseen : ~Resolvable(typesseen[k]))
          => (pc = "raised" /\ result = <<>> /\ stack = <<>>)
    /\ (ServiceEntry /\ root \notin ServiceClasses)
          => (pc = "raised" /\ result = <<>> /\ stack = <<>>)
    /\ pc = "raised" => (result = <<>> /\ stack = <<>>)
    /\ pc = "done" =>
          /\ \A k \in DOMAIN typesseen : Resolvable(typesseen[k])
          /\ \A n \in Reachable(RootClass) : Resolvable(n)

\* The failure came from a nested field, after typedefs had been collected.
C8_Witness ==
    /\ pc = "raised" /\ entry = "message" /\ root = "A"
    /\ registry["A"] = <<"B", "X">>
    /\ typesseen = <<"A", "B", "X">>

\* ------------------------------------------------------------------------
\* The fields of the instance the loop of _get_typedef has gone through
\* ------------------------------------------------------------------------
Built == bpc \in {"loop", "done"}
Processed == DOMAIN fieldarraylen

EndsWith(s, t) ==
    Len(s) >= Len(t) /\ SubSeq(s, Len(s) - Len(t) + 1, Len(s)) = t

\* The number a string of decimal digits denotes, most significant first.
RECURSIVE DecimalNumber(_, _)
DecimalNumber(s, acc) ==
    IF s = <<>> THEN acc
    ELSE DecimalNumber(Tail(s), 10 * acc + DigitValue(Head(s)))

\* d is base followed by "[", the digits ds and "]".
IsSized(d, base, ds) ==
    /\ ds # <<>>
    /\ \A k \in DOMAIN ds : ds[k] \in Range(Digits)
    /\ d = base \o <<"[">> \o ds \o <<"]">>

Splits(d) ==
    { <<SubSeq(d, 1, b), SubSeq(d, b + 2, Len(d) - 1)>> : b \in 0..Len(d) }

\* ------------------------------------------------------------------------
\* C9 as stated: the example of a field is "[]" for arity >= 0, "{}" for a
\* scalar of a nested composite type, and the stringified field value for a
\* scalar of an atomic type or of time/duration.
\* ------------------------------------------------------------------------
C9_ExampleRule ==
    Built => \A k \in Processed :
        LET arity == fieldarraylen[k]
            base == basetypes[k]
            plain == base \in atomicStrings \/ base \in specialStrings
        IN /\ arity >= 0 => examples[k] = "[]"
           /\ (arity < 0 /\ ~plain) => examples[k] = "{}"
           /\ (arity < 0 /\ plain) => examples[k] = Str(instance.values[k])

\* C9 amended: the example of a field is "[]" for arity >= 0, "{}" for a
\* scalar whose base type is not atomic (a nested composite, time or
\* duration), and the stringified field value for a scalar of atomic type.
C9_ExampleRuleSpecialsAsDict ==
    Built => \A k \in Processed :
        LET arity == fieldarraylen[k]
            base == basetypes[k]
        IN /\ arity >= 0 => examples[k] = "[]"
           /\ (arity < 0 /\ base \notin atomicStrings) => examples[k] = "{}"
           /\ (arity < 0 /\ base \in atomicStrings)
                 => examples[k] = Str(instance.values[k])

\* A typedef with a scalar time field and a scalar int32 field.
C9_Witness ==
    /\ bpc = "done"
    /\ instance.slot_types = <<Chars["time"], Chars["int32"]>>
    /\ examples = <<"{}", "0">>

\* ------------------------------------------------------------------------
\* C10: arity and base type follow from the trailing bracket suffix alone:
\* no trailing bracket gives -1 and the string itself, a trailing "[]"
\* gives 0 and the string without it, a trailing "[N]" gives N and the
\* string without it; the arity list stays parallel to the name list.
\* ------------------------------------------------------------------------
C10_ArityFromSuffix ==
    Built =>
        /\ Len(fieldarraylen) = Len(fieldnames)
        /\ Len(fieldnames) = idx
        /\ bpc = "done" => Len(fieldarraylen) = Len(instance.slots)
        /\ \A k \in Processed :
              LET d == instance.slot_types[k] IN
              /\ fieldnames[k] = instance.slots[k]
              /\ ~EndsWith(d, <<"]">>) =>
                    (fieldarraylen[k] = -1 /\ basetypes[k] = d)
              /\ EndsWith(d, <<"[", "]">>) =>
                    (fieldarraylen[k] = 0 /\ basetypes[k] \o <<"[", "]">> = d)
              /\ \A sp \in Splits(d) :
                    IsSized(d, sp[1], sp[2]) =>
                        /\ fieldarraylen[k] = DecimalNumber(sp[2], 0)
                        /\ basetypes[k] = sp[1]
              /\ basetypes[k] \in atomicStrings =>
                    fieldtypes[k] = basetypes[k]

\* 'int32[3]' next to a variable-length array of a message class.
C10_Witness ==
    /\ bpc = "done"
    /\ instance.slot_types =
          << Chars["int32"] \o <<"[", "3", "]">>, <<"p", "/", "A", "[", "]">> >>
    /\ fieldarraylen = <<3, 0>>
    /\ fieldtypes = <<Chars["int32"], <<"p", "/", "A">>>>

====
